---- MODULE Spec2Model ----
(***************************************************************************)
(* Verification model of mcp-gateway: the bridge session protocol state    *)
(* machine (core/bridge.py), the relay's single-instance lock and          *)
(* stdio<->socket relay (cli.py, command `bridge`), and the log shipper    *)
(* (core/logging.py).                                                      *)
(*                                                                         *)
(* One module, several specifications over one set of variables:           *)
(*   SpecSession  one MCPBridge handling a sequence of messages            *)
(*   SpecLock     several relay processes racing through acquire_lock      *)
(*   SpecRelay    foreground loop + socket worker + remote session         *)
(*   SpecRelayFair  the same under the scheduling the code relies on       *)
(*   SpecRelayZero  the same with a local peer that uses the id "0"        *)
(*   SpecLog      BridgeLogger.log / flush / stop                          *)
(* Each specification leaves the other components' variables untouched.    *)
(***************************************************************************)
EXTENDS Integers, Sequences, FiniteSets, TLC

(***************************************************************************)
(* Bounds of the model.                                                    *)
(***************************************************************************)
MaxMsgs == 3

(***************************************************************************)
(* JSON-RPC values.  An id is absent, a string or a number; the two are    *)
(* kept apart because the code treats them differently (pydantic `id: str` *)
(* rejects a number, json.dumps renders 1 and "1" differently).            *)
(***************************************************************************)
NoId == [k |-> "none", v |-> 0]

SId(n) == [k |-> "str", v |-> n]

NId(n) == [k |-> "num", v |-> n]

\* str(id): Python's str() of a JSON id.
Str(id) == [k |-> "str", v |-> id.v]

\* The empty string "", the id of a reply to an unparseable request.
EmptyId == [k |-> "str", v |-> -1]

\* The ids the modelled peers use.
Ids == {NoId, SId(0), SId(1), NId(0), NId(1)}

Versions == {"2.0", "1.0", "absent"}

Methods == {"initialize", "minimal.echo", "minimal.nope", "nosuch.echo", "foo", "absent"}

\* params: absent (None), {} (an empty dict, falsy) or a non-empty dict.
ParamsKinds == {"absent", "empty", "nonempty"}

Messages == [jsonrpc : Versions, method : Methods, params : ParamsKinds, id : Ids]

Result(id, body) == [id |-> id, kind |-> "result", code |-> 0, body |-> body]

Error(id, code, body) == [id |-> id, kind |-> "error", code |-> code, body |-> body]

(***************************************************************************)
(* ToolRegistry: the registered tools and the (class-level, shared)        *)
(* methods table.                                                          *)
(***************************************************************************)
RegisteredTools == {"minimal"}

RegisteredMethods == {"echo", "get_current_time", "get_platform_info"}

\* Mutation: every method name is taken to contain a dot.
HasDot_Mut(method) == TRUE

\* "." in request.method
HasDot(method) == method \in {"minimal.echo", "minimal.nope", "nosuch.echo"}

\* ToolRegistry.get_capabilities(): every registered tool with the methods
\* its get_capabilities() lists, as (tool, method) pairs.
RegistryCapabilities == {<<t, m>> : t \in RegisteredTools, m \in RegisteredMethods}

\* The tools map written out in the quick initialize response: the tool
\* "minimal" with the single method "echo".
QuickTools == {<<"minimal", "echo">>}

\* The tools map carried by the result body of an initialize reply.
ToolsOf(body) ==
  IF body = "quick_caps" THEN QuickTools
  ELSE IF body = "registry_caps" THEN RegistryCapabilities
  ELSE {}

\* request.method.split(".", 1)
ToolName(method) == IF method = "nosuch.echo" THEN "nosuch" ELSE "minimal"

MethodName(method) == IF method = "minimal.nope" THEN "nope" ELSE "echo"

(***************************************************************************)
(* MCPBridge.  handle_message is a function of the session's initialized   *)
(* flag, the message and whether the websocket accepts a send (send_json   *)
(* raises when it does not).  It yields the new flag, the replies that     *)
(* reached the transport and the branch that handled the message.          *)
(***************************************************************************)
\* Mutation: a request is accepted without a method.
MCPRequestValid_Mut(message) == message.id.k = "str"

\* MCPRequest(**message): method and a string id are required, jsonrpc
\* defaults to "2.0" and its value is not validated.
MCPRequestValid(message) ==
  /\ message.method # "absent"
  /\ message.id.k = "str"

Sent(wsOk, reply) == IF wsOk THEN <<reply>> ELSE <<>>

\* The request names a registered tool and one of its methods, so that
\* _handle_method_call reaches the handler call.
ReachesHandler(message) ==
  /\ HasDot(message.method)
  /\ ToolName(message.method) \in RegisteredTools
  /\ MethodName(message.method) \in RegisteredMethods

\* await tool.methods[method_name].handler(tool, **params): the entries of
\* tool.methods are MCPMethod models, which have no attribute `handler`, so
\* the expression raises AttributeError before any tool code runs.  `text`
\* is str(e) when raised, the returned value otherwise.
HandlerCall(message) == [raised |-> TRUE, text |-> "no_handler"]

\* Mutation: an exception of the call is reported as an internal error.
MethodCallError_Mut(message, text) == Error(message.id, -32603, text)

\* `except Exception as e` of _handle_method_call.
MethodCallError(message, text) == Error(message.id, -32000, text)

handle_method_call(message, wsOk) ==
  IF ~HasDot(message.method)
  THEN Sent(wsOk, Error(message.id, -32601, "method_not_found"))
  ELSE IF ToolName(message.method) \notin RegisteredTools
  THEN Sent(wsOk, Error(message.id, -32601, "tool_not_found"))
  ELSE IF MethodName(message.method) \notin RegisteredMethods
  THEN Sent(wsOk, Error(message.id, -32601, "method_not_found"))
  ELSE IF HandlerCall(message).raised
  THEN Sent(wsOk, MethodCallError(message, HandlerCall(message).text))
  ELSE Sent(wsOk, Result(message.id, HandlerCall(message).text))

handle_initialize(init, message, wsOk) ==
  IF message.params = "nonempty"
  THEN [init |-> init, out |-> Sent(wsOk, Error(message.id, -32602, "invalid_params")),
        branch |-> "initialize"]
  ELSE IF init
  THEN [init |-> init, out |-> Sent(wsOk, Error(message.id, -32002, "already_initialized")),
        branch |-> "initialize"]
  ELSE [init |-> TRUE, out |-> Sent(wsOk, Result(message.id, "registry_caps")),
        branch |-> "initialize"]

\* The guard of the "quick initialize" path of handle_message.
QuickInitialize(message) ==
  message.method = "initialize" /\ message.jsonrpc = "2.0"

\* Mutation: the not-initialized guard never fires.
NotInitializedGuard_Mut(init) == FALSE

\* `elif not self.initialized`: keeps method calls out of an uninitialized
\* session.
NotInitializedGuard(init) == ~init

handle_message(init, message, wsOk) ==
  IF QuickInitialize(message) /\ wsOk
  THEN \* message.get("id", "0"): the raw id, "0" when absent
       [init |-> TRUE,
        out |-> <<Result(IF message.id = NoId THEN SId(0) ELSE message.id, "quick_caps")>>,
        branch |-> "quick_initialize"]
  ELSE IF ~MCPRequestValid(message)
  THEN [init |-> init, out |-> Sent(wsOk, Error(EmptyId, -32600, "invalid_request")),
        branch |-> "invalid"]
  ELSE IF message.method = "initialize"
  THEN handle_initialize(init, message, wsOk)
  ELSE IF NotInitializedGuard(init)
  THEN [init |-> init, out |-> Sent(wsOk, Error(message.id, -32002, "not_initialized")),
        branch |-> "not_initialized"]
  ELSE [init |-> init, out |-> handle_method_call(message, wsOk),
        branch |-> "method_call"]

(***************************************************************************)
(* State of one bridge session (SpecSession).                              *)
(***************************************************************************)
VARIABLES
  initialized,   \* MCPBridge.initialized
  sessOpen,      \* FALSE once handle_websocket left its loop and ran cleanup
  handledN,      \* messages handled so far on this connection
  last,          \* the last message handled: input, state before, outcome,
                 \* and whether the message before it ended in an exception
  initOkCount    \* initialize requests answered with a success result

sessVars == <<initialized, sessOpen, handledN, last, initOkCount>>

NoMessage == [jsonrpc |-> "absent", method |-> "absent", params |-> "absent", id |-> NoId]

NoLast ==
  [msg |-> NoMessage, before |-> FALSE, wsOk |-> FALSE, out |-> <<>>, branch |-> "none",
   afterRaise |-> FALSE]

\* The handling recorded in l ended in the except clause of _handle_method_call.
Raised(l) ==
  /\ l.branch = "method_call"
  /\ ReachesHandler(l.msg)
  /\ HandlerCall(l.msg).raised

SessInit ==
  /\ initialized = FALSE
  /\ sessOpen = TRUE
  /\ handledN = 0
  /\ last = NoLast
  /\ initOkCount = 0

IsInitSuccess(message, out) ==
  /\ message.method = "initialize"
  /\ Len(out) = 1
  /\ out[1].kind = "result"

\* Mutation: messages are handled whether or not the loop has ended.
Receiving_Mut(open) == TRUE

\* handle_message is called from the `while True` loop of handle_websocket
\* only; the loop is left before cleanup() runs and is never entered again.
Receiving(open) == open

\* One iteration of handle_websocket's receive loop: bridge.handle_message.
SessHandle(message, wsOk) ==
  /\ Receiving(sessOpen)
  /\ handledN < MaxMsgs
  /\ LET r == handle_message(initialized, message, wsOk) IN
       /\ initialized' = r.init
       /\ last' = [msg |-> message, before |-> initialized, wsOk |-> wsOk,
                   out |-> r.out, branch |-> r.branch, afterRaise |-> Raised(last)]
       /\ initOkCount' = IF IsInitSuccess(message, r.out) THEN initOkCount + 1 ELSE initOkCount
  /\ handledN' = handledN + 1
  /\ UNCHANGED sessOpen

\* WebSocketDisconnect: the loop ends and bridge.cleanup() runs.
SessCleanup ==
  /\ sessOpen
  /\ sessOpen' = FALSE
  /\ UNCHANGED <<initialized, handledN, last, initOkCount>>

SessNext ==
  \/ \E message \in Messages, wsOk \in BOOLEAN : SessHandle(message, wsOk)
  \/ SessCleanup

(***************************************************************************)
(* The relay's single-instance lock (cli.py, check_existing_process and    *)
(* acquire_lock), run by several relay processes against one lock path.    *)
(* A process is identified with its PID.  The lock path names an inode (0: *)
(* the path does not exist); an inode has a content (the PID written, 0:   *)
(* empty) and at most one flock holder.                                    *)
(***************************************************************************)
NProcs == 2

Procs == 1..NProcs

Inodes == 1..NProcs

VARIABLES
  lpc,           \* lpc[p]: where process p is in its startup / lifetime
  phase,         \* phase[p]: 1 = first check_existing_process, 2 = the re-check
  lockPath,      \* inode the lock path names, 0 if the file does not exist
  inodeContent,  \* inodeContent[i]: PID stored in the file, 0 if empty
  flockHolder,   \* flockHolder[i]: process holding LOCK_EX on inode i, 0 if none
  lockFile,      \* lockFile[p]: inode of the file object p opened, 0 if none
  nextInode,     \* next inode number to hand out
  errCount       \* errCount[p]: error responses p wrote to its local peer

lockVars == <<lpc, phase, lockPath, inodeContent, flockHolder, lockFile, nextInode, errCount>>

LockInit ==
  /\ lpc = [p \in Procs |-> "notstarted"]
  /\ phase = [p \in Procs |-> 1]
  /\ lockPath = 0
  /\ inodeContent = [i \in Inodes |-> 0]
  /\ flockHolder = [i \in Inodes |-> 0]
  /\ lockFile = [p \in Procs |-> 0]
  /\ nextInode = 1
  /\ errCount = [p \in Procs |-> 0]

\* os.kill(pid, 0) succeeds: the process exists.
Alive(q) == lpc[q] \notin {"notstarted", "exited"}

\* Where control goes when check_existing_process returns.
AfterCheck(p) == IF phase[p] = 1 THEN "open" ELSE "fail"

\* The process is launched and enters acquire_lock.
LkStart(p) ==
  /\ lpc[p] = "notstarted"
  /\ lpc' = [lpc EXCEPT ![p] = "chk_exists"]
  /\ UNCHANGED <<phase, lockPath, inodeContent, flockHolder, lockFile, nextInode, errCount>>

\* check_existing_process: lock_file_path.exists()
LkCheckExists(p) ==
  /\ lpc[p] = "chk_exists"
  /\ lpc' = [lpc EXCEPT ![p] = IF lockPath = 0 THEN AfterCheck(p) ELSE "chk_read"]
  /\ UNCHANGED <<phase, lockPath, inodeContent, flockHolder, lockFile, nextInode, errCount>>

\* check_existing_process: open, read the PID, os.kill(pid, 0).  When the
\* recorded process is alive the error response is written and sys.exit(1)
\* is called inside the outer `try` whose bare `except:` catches SystemExit
\* and goes on to unlink the lock file, like the stale-lock branch does.
LkCheckRead(p) ==
  /\ lpc[p] = "chk_read"
  /\ IF lockPath = 0
     THEN \* the file vanished: open() raises, the unlink in `except:` fails too
          /\ lpc' = [lpc EXCEPT ![p] = AfterCheck(p)]
          /\ UNCHANGED errCount
     ELSE IF inodeContent[lockPath] = 0
     THEN \* `if old_pid:` is false
          /\ lpc' = [lpc EXCEPT ![p] = AfterCheck(p)]
          /\ UNCHANGED errCount
     ELSE /\ lpc' = [lpc EXCEPT ![p] = "chk_unlink"]
          /\ errCount' = IF Alive(inodeContent[lockPath])
                         THEN [errCount EXCEPT ![p] = @ + 1]
                         ELSE errCount
  /\ UNCHANGED <<phase, lockPath, inodeContent, flockHolder, lockFile, nextInode>>

\* check_existing_process: os.unlink(lock_file_path)
LkCheckUnlink(p) ==
  /\ lpc[p] = "chk_unlink"
  /\ lockPath' = 0
  /\ lpc' = [lpc EXCEPT ![p] = AfterCheck(p)]
  /\ UNCHANGED <<phase, inodeContent, flockHolder, lockFile, nextInode, errCount>>

\* acquire_lock: open(lock_file_path, "w") creates the file or truncates it
LkOpen(p) ==
  /\ lpc[p] = "open"
  /\ IF lockPath = 0
     THEN /\ lockPath' = nextInode
          /\ nextInode' = nextInode + 1
          /\ lockFile' = [lockFile EXCEPT ![p] = nextInode]
          /\ UNCHANGED inodeContent
     ELSE /\ inodeContent' = [inodeContent EXCEPT ![lockPath] = 0]
          /\ lockFile' = [lockFile EXCEPT ![p] = lockPath]
          /\ UNCHANGED <<lockPath, nextInode>>
  /\ lpc' = [lpc EXCEPT ![p] = "write"]
  /\ UNCHANGED <<phase, flockHolder, errCount>>

\* acquire_lock: write(str(os.getpid())), flush, fsync
LkWrite(p) ==
  /\ lpc[p] = "write"
  /\ inodeContent' = [inodeContent EXCEPT ![lockFile[p]] = p]
  /\ lpc' = [lpc EXCEPT ![p] = "flock"]
  /\ UNCHANGED <<phase, lockPath, flockHolder, lockFile, nextInode, errCount>>

\* acquire_lock: fcntl.flock(LOCK_EX | LOCK_NB); on success the process goes
\* on to the main loop, on IOError it re-checks for an existing process.
LkFlock(p) ==
  /\ lpc[p] = "flock"
  /\ IF flockHolder[lockFile[p]] = 0
     THEN /\ flockHolder' = [flockHolder EXCEPT ![lockFile[p]] = p]
          /\ lpc' = [lpc EXCEPT ![p] = "main"]
          /\ UNCHANGED phase
     ELSE /\ phase' = [phase EXCEPT ![p] = 2]
          /\ lpc' = [lpc EXCEPT ![p] = "chk_exists"]
          /\ UNCHANGED flockHolder
  /\ UNCHANGED <<lockPath, inodeContent, lockFile, nextInode, errCount>>

\* acquire_lock: "Failed to acquire bridge process lock", sys.exit(1)
LkFail(p) ==
  /\ lpc[p] = "fail"
  /\ errCount' = [errCount EXCEPT ![p] = @ + 1]
  /\ lpc' = [lpc EXCEPT ![p] = "exited"]
  /\ lockFile' = [lockFile EXCEPT ![p] = 0]
  /\ UNCHANGED <<phase, lockPath, inodeContent, flockHolder, nextInode>>

\* The main loop ends; `finally`: flock(LOCK_UN), close, os.unlink(path).
LkExit(p) ==
  /\ lpc[p] = "main"
  /\ flockHolder' = [flockHolder EXCEPT ![lockFile[p]] = 0]
  /\ lockFile' = [lockFile EXCEPT ![p] = 0]
  /\ lockPath' = 0
  /\ lpc' = [lpc EXCEPT ![p] = "exited"]
  /\ UNCHANGED <<phase, inodeContent, nextInode, errCount>>

\* The process is killed: the kernel drops its flock, the file stays behind.
LkCrash(p) ==
  /\ lpc[p] = "main"
  /\ flockHolder' = [flockHolder EXCEPT ![lockFile[p]] = 0]
  /\ lockFile' = [lockFile EXCEPT ![p] = 0]
  /\ lpc' = [lpc EXCEPT ![p] = "exited"]
  /\ UNCHANGED <<phase, lockPath, inodeContent, nextInode, errCount>>

LockNext ==
  \E p \in Procs :
    \/ LkStart(p)
    \/ LkCheckExists(p)
    \/ LkCheckRead(p)
    \/ LkCheckUnlink(p)
    \/ LkOpen(p)
    \/ LkWrite(p)
    \/ LkFlock(p)
    \/ LkFail(p)
    \/ LkExit(p)
    \/ LkCrash(p)

(***************************************************************************)
(* BridgeLogger (core/logging.py).  Records are numbered in the order they *)
(* are passed to log().  A flush in progress is a "flight": the batch it   *)
(* swapped out, the attempt it is at and whether it is posting or sleeping. *)
(* The flights are the periodic task's flush, the size-triggered tasks     *)
(* created by log(), and stop()'s final flush.  The logger belongs to one  *)
(* MCPBridge: the session logs while its receive loop runs, and cleanup()  *)
(* calls stop() and then logs "Bridge disconnected".                       *)
(***************************************************************************)
MaxRecords == 4

BufferSize == 2

MaxRetries == 3

MaxSizeTasks == 1

Records == 1..MaxRecords

\* The record "Bridge disconnected" that cleanup() logs, the last one.
Disconnected == MaxRecords + 1

Logged == Records \cup {Disconnected}

SizeTasks == {[kind |-> "size", n |-> n] : n \in 1..MaxSizeTasks}

Periodic == [kind |-> "periodic", n |-> 0]

Final == [kind |-> "final", n |-> 0]

Owners == SizeTasks \cup {Periodic, Final}

Idle == [st |-> "idle", batch |-> <<>>, attempt |-> 0]

VARIABLES
  fileOk,        \* _setup_file_logging attached a FileHandler (not a NullHandler)
  fallback,      \* records in the fallback log file, in order
  buffer,        \* BridgeLogger.buffer
  logging,       \* record inside log() between the file write and the append, 0 if none
  nextRec,       \* number of the next record to be logged
  flights,       \* flights[o]: state of owner o's flush
  delivered,     \* delivered[r]: successful deliveries that contained r
  timerOn,       \* the periodic task exists and is not cancelled
  stopped,       \* stop() was called
  exhausted,     \* some flush has failed all its attempts
  closed,        \* MCPBridge.cleanup() has returned
  sinkFailed,    \* the sink has refused some delivery attempt
  discarded      \* records the overflow trim has removed from the buffer

logVars == <<fileOk, fallback, buffer, logging, nextRec, flights, delivered,
             timerOn, stopped, exhausted, closed, sinkFailed, discarded>>

LogInit ==
  /\ fileOk \in BOOLEAN
  /\ fallback = <<>>
  /\ buffer = <<>>
  /\ logging = 0
  /\ nextRec = 1
  /\ flights = [o \in Owners |-> Idle]
  /\ delivered = [r \in Logged |-> 0]
  /\ timerOn = TRUE
  /\ stopped = FALSE
  /\ exhausted = FALSE
  /\ closed = FALSE
  /\ sinkFailed = FALSE
  /\ discarded = {}

RECURSIVE SeqToSet(_)
SeqToSet(q) == IF q = <<>> THEN {} ELSE {Head(q)} \cup SeqToSet(Tail(q))

\* self.file_logger.log(...): appends to the file unless the logger only has
\* a NullHandler.
FallbackWrite(fb, ok, r) == IF ok THEN Append(fb, r) ELSE fb

FreeSizeTasks == {o \in SizeTasks : flights[o].st = "idle"}

\* log(), first half: build the entry and write it to the fallback file.
\* The session logs from handle_message, that is before cleanup() runs.
LogWrite ==
  /\ ~stopped
  /\ logging = 0
  /\ nextRec <= MaxRecords
  /\ Len(buffer) + 1 >= BufferSize => FreeSizeTasks # {}
  /\ fallback' = FallbackWrite(fallback, fileOk, nextRec)
  /\ logging' = nextRec
  /\ nextRec' = nextRec + 1
  /\ UNCHANGED <<fileOk, buffer, flights, delivered, timerOn, stopped, exhausted, closed, sinkFailed, discarded>>

\* log(), second half: buffer.append; when the buffer has reached
\* buffer_size, asyncio.create_task(self.flush()).
LogAppend ==
  /\ logging # 0
  /\ buffer' = Append(buffer, logging)
  /\ logging' = 0
  /\ IF Len(buffer') >= BufferSize
     THEN \E o \in FreeSizeTasks :
            flights' = [flights EXCEPT ![o] = [Idle EXCEPT !.st = "scheduled"]]
     ELSE UNCHANGED flights
  /\ UNCHANGED <<fileOk, fallback, nextRec, delivered, timerOn, stopped, exhausted, closed, sinkFailed, discarded>>

\* _periodic_flush: asyncio.sleep(flush_interval) elapsed, flush() is called.
TimerFires ==
  /\ logging = 0
  /\ timerOn
  /\ flights[Periodic].st = "idle"
  /\ flights' = [flights EXCEPT ![Periodic] = [Idle EXCEPT !.st = "scheduled"]]
  /\ UNCHANGED <<fileOk, fallback, buffer, logging, nextRec, delivered, timerOn, stopped, exhausted, closed, sinkFailed, discarded>>

\* Mutation: the buffer is copied into the batch but not cleared.
Swapped_Mut(buf) == buf

\* self.buffer.clear(), right after logs_to_send = self.buffer[:] with no
\* await in between: the live buffer after the swap.
Swapped(buf) == <<>>

\* flush(): return if the buffer is empty, else swap the buffer out.
FlushBegin(o) ==
  /\ logging = 0
  /\ flights[o].st = "scheduled"
  /\ IF buffer = <<>>
     THEN /\ flights' = [flights EXCEPT ![o] = Idle]
          /\ UNCHANGED buffer
     ELSE /\ flights' = [flights EXCEPT ![o] = [st |-> "post", batch |-> buffer, attempt |-> 0]]
          /\ buffer' = Swapped(buffer)
  /\ UNCHANGED <<fileOk, fallback, logging, nextRec, delivered, timerOn, stopped, exhausted, closed, sinkFailed, discarded>>

\* self.buffer = self.buffer[-self.buffer_size:]
LastN(q, n) == IF Len(q) <= n THEN q ELSE SubSeq(q, Len(q) - n + 1, Len(q))

\* The buffer after the last failed attempt: the batch is appended to the
\* live buffer, which is cut to its last buffer_size entries when it exceeds
\* 2 * buffer_size.
MergeBack(buf, batch) ==
  LET merged == buf \o batch IN
  IF Len(merged) > BufferSize * 2 THEN LastN(merged, BufferSize) ELSE merged

\* flush(): one delivery attempt answered by the sink.
FlushPost(o, ok) ==
  /\ logging = 0
  /\ flights[o].st = "post"
  /\ IF ok
     THEN /\ delivered' = [r \in Logged |->
                 IF r \in SeqToSet(flights[o].batch) THEN delivered[r] + 1 ELSE delivered[r]]
          /\ flights' = [flights EXCEPT ![o] = Idle]
          /\ UNCHANGED <<buffer, exhausted, sinkFailed, discarded>>
     ELSE /\ flights' = [flights EXCEPT ![o].st = "sleep"]
          /\ sinkFailed' = TRUE
          /\ IF flights[o].attempt = MaxRetries - 1
             THEN /\ buffer' = MergeBack(buffer, flights[o].batch)
                  /\ discarded' = discarded \cup
                        (SeqToSet(buffer \o flights[o].batch) \ SeqToSet(buffer'))
                  /\ exhausted' = TRUE
             ELSE UNCHANGED <<buffer, exhausted, discarded>>
          /\ UNCHANGED delivered
  /\ UNCHANGED <<fileOk, fallback, logging, nextRec, timerOn, stopped, closed>>

\* Mutation: one more pass of the retry loop.
MoreAttempts_Mut(attempt) == attempt + 1 <= MaxRetries

\* `for attempt in range(self.max_retries)`: there is a next pass.
MoreAttempts(attempt) == attempt + 1 < MaxRetries

\* flush(): the backoff sleep after a failed attempt is over.
FlushSleepDone(o) ==
  /\ logging = 0
  /\ flights[o].st = "sleep"
  /\ flights' = [flights EXCEPT ![o] =
        IF MoreAttempts(flights[o].attempt)
        THEN [flights[o] EXCEPT !.st = "post", !.attempt = @ + 1]
        ELSE Idle]
  /\ UNCHANGED <<fileOk, fallback, buffer, logging, nextRec, delivered, timerOn, stopped, exhausted, closed, sinkFailed, discarded>>

\* stop(): cancel the periodic task (a flush it is suspended in is abandoned
\* where it stands), then run the final flush.
Stop ==
  /\ logging = 0
  /\ ~stopped
  /\ stopped' = TRUE
  /\ timerOn' = FALSE
  /\ flights' = [flights EXCEPT ![Periodic] = Idle,
                                ![Final] = [Idle EXCEPT !.st = "scheduled"]]
  /\ UNCHANGED <<fileOk, fallback, buffer, logging, nextRec, delivered, exhausted, closed, sinkFailed, discarded>>

\* MCPBridge.cleanup(), after `await self.logger.stop()` has returned:
\* self.logger.info("Bridge disconnected"), a complete log() call (it has no
\* await), and cleanup() returns.
CleanupReturns ==
  /\ stopped
  /\ ~closed
  /\ logging = 0
  /\ flights[Final].st = "idle"
  /\ Len(buffer) + 1 >= BufferSize => FreeSizeTasks # {}
  /\ fallback' = FallbackWrite(fallback, fileOk, Disconnected)
  /\ buffer' = Append(buffer, Disconnected)
  /\ IF Len(buffer') >= BufferSize
     THEN \E o \in FreeSizeTasks :
            flights' = [flights EXCEPT ![o] = [Idle EXCEPT !.st = "scheduled"]]
     ELSE UNCHANGED flights
  /\ closed' = TRUE
  /\ UNCHANGED <<fileOk, logging, nextRec, delivered, timerOn, stopped, exhausted, sinkFailed, discarded>>

LogNext ==
  \/ LogWrite
  \/ LogAppend
  \/ TimerFires
  \/ \E o \in Owners : FlushBegin(o)
  \/ \E o \in Owners, ok \in BOOLEAN : FlushPost(o, ok)
  \/ \E o \in Owners : FlushSleepDone(o)
  \/ Stop
  \/ CleanupReturns

(***************************************************************************)
(* The relay (cli.py, command `bridge`, stdin/stdout mode): the foreground *)
(* loop that serves the local peer, the socket worker connect_and_process, *)
(* and the remote end of the connection, which is an MCPBridge session     *)
(* created by handle_websocket for every accepted connection.              *)
(* The worker is modelled as the body of connect_and_process.  In the      *)
(* source that coroutine is started by websocket_thread with               *)
(* run_until_complete on a second event loop while the thread's own loop   *)
(* is running, which asyncio refuses; the model follows the body as if     *)
(* the inner loop ran, since that body is what the relay's claims are      *)
(* about.                                                                  *)
(***************************************************************************)
MaxInputs == 2

MaxFaults == 1

MaxInFlight == 1

\* The requests the local peer may write, one per line.
InitNum0 == [jsonrpc |-> "2.0", method |-> "initialize", params |-> "absent", id |-> NId(0)]

InitStr1 == [jsonrpc |-> "absent", method |-> "initialize", params |-> "absent", id |-> SId(1)]

CallNum2 == [jsonrpc |-> "2.0", method |-> "minimal.echo", params |-> "nonempty", id |-> NId(2)]

CallStr3 == [jsonrpc |-> "2.0", method |-> "minimal.echo", params |-> "nonempty", id |-> SId(3)]

CallNoId == [jsonrpc |-> "2.0", method |-> "minimal.echo", params |-> "nonempty", id |-> NoId]

PeerRequests == {InitNum0, InitStr1, CallNum2, CallStr3, CallNoId}

\* A local peer whose call carries the id "0".
CallStr0 == [jsonrpc |-> "2.0", method |-> "minimal.echo", params |-> "nonempty", id |-> SId(0)]

ZeroIdRequests == {InitStr1, CallStr0, CallStr3}

\* No line has been parsed yet.
NoRequest == [jsonrpc |-> "absent", method |-> "absent", params |-> "absent", id |-> NoId]

\* Keys of the pending table: str(id), or the generated str(len(pending)+1).
Keys == {Str(r.id) : r \in PeerRequests} \cup {SId(n) : n \in 1..MaxInputs}

\* The id "connection" of the connection_established message.
ConnectionId == [k |-> "str", v |-> -2]

\* {"type": "test", ...}: sent by handle_websocket right after accept().
TestMsg == [id |-> NoId, kind |-> "test", code |-> 0, body |-> "test"]

\* The connection_established message; `code` carries the connection_id.
ConnMsg(c) == [id |-> ConnectionId, kind |-> "connection", code |-> c, body |-> "connection_established"]

\* Tracking ids: a prefix and hash(json.dumps(response)) (with the id).
Fingerprint(prefix, response) == [t |-> prefix, r |-> response]

VARIABLES
  fpc,                      \* foreground loop: "resp", "stdin", "insert", "eof_wait", "exited"
  broken_pipe_count,        \* failed writes to the local peer since the last good one
  fgRequest,                \* `request`: the request parsed from the line read last
  linesLeft,                \* lines the local peer may still write
  eof,                      \* the local peer closed the relay's stdin
  pending_requests,         \* insertion-ordered table: sequence of [key, req]
  response_queue,
  connection_initialized,
  processed_response_ids,
  sent_response_ids,
  stdout,                   \* lines written to the local peer, in order
  wpc,                      \* socket worker: "none", "top", "hello", "init_send",
                            \*   "recv", "send", "backoff"
  active_connection,
  connNo,                   \* connections established so far
  connUp,                   \* the current websocket is open
  closeCode,                \* why the current websocket closed: "none", "auth", "other"
  srvInit,                  \* initialized flag of the remote MCPBridge of this connection
  toServer,                 \* frames in flight from the relay to the remote
  toRelay,                  \* frames sent by the remote, not yet received by the relay
  faults,                   \* connection failures injected so far
  sentThisConn,             \* sentThisConn[k]: transmissions of pending key k on this connection
  seen,                     \* <<response, connection>> pairs the worker has received
  seenTwice,                \* responses the worker has received more than once
  accepted,                 \* accepted[k]: requests with key k taken from the local peer
  wsThreads,                \* worker threads started and still alive
  authRejected              \* a connection was closed with the authentication-failure code

relayVars == <<fpc, fgRequest, broken_pipe_count, linesLeft, eof, pending_requests, response_queue, connection_initialized,
               processed_response_ids, sent_response_ids, stdout, wpc, active_connection,
               connNo, connUp, closeCode, srvInit, toServer, toRelay, faults,
               sentThisConn, seen, seenTwice, accepted, wsThreads, authRejected>>

fgVars == <<fpc, fgRequest, broken_pipe_count, linesLeft, eof, stdout, sent_response_ids, accepted, wsThreads>>

netVars == <<connNo, connUp, closeCode, srvInit, toServer, toRelay, faults, authRejected>>

RelayInit ==
  /\ fpc = "resp"
  /\ fgRequest = NoRequest
  /\ broken_pipe_count = 0
  /\ linesLeft = MaxInputs
  /\ eof = FALSE
  /\ pending_requests = <<>>
  /\ response_queue = <<>>
  /\ connection_initialized = FALSE
  /\ processed_response_ids = {}
  /\ sent_response_ids = {}
  /\ stdout = <<>>
  /\ wpc = "none"
  /\ active_connection = FALSE
  /\ connNo = 0
  /\ connUp = FALSE
  /\ closeCode = "none"
  /\ srvInit = FALSE
  /\ toServer = <<>>
  /\ toRelay = <<>>
  /\ faults = 0
  /\ sentThisConn = [k \in Keys |-> 0]
  /\ seen = {}
  /\ seenTwice = {}
  /\ accepted = [k \in Keys |-> 0]
  /\ wsThreads = 0
  /\ authRejected = FALSE

(* ---- the pending table, a Python dict in insertion order ---- *)
HasKey(pend, key) == \E i \in 1..Len(pend) : pend[i].key = key

\* pending_requests[key] = req: replaces in place or appends.
PutPending(pend, key, req) ==
  IF HasKey(pend, key)
  THEN [i \in 1..Len(pend) |-> IF pend[i].key = key THEN [key |-> key, req |-> req] ELSE pend[i]]
  ELSE Append(pend, [key |-> key, req |-> req])

RECURSIVE SelectPending(_, _)
SelectPending(pend, keep) ==
  IF pend = <<>> THEN <<>>
  ELSE IF Head(pend).key \in keep
       THEN <<Head(pend)>> \o SelectPending(Tail(pend), keep)
       ELSE SelectPending(Tail(pend), keep)

PendingKeys(pend) == {pend[i].key : i \in 1..Len(pend)}

InitKeys(pend) == {pend[i].key : i \in {j \in 1..Len(pend) : pend[j].req.method = "initialize"}}

\* del pending_requests[key]
DelPending(pend, key) == SelectPending(pend, PendingKeys(pend) \ {key})

\* remove every pending request whose method is initialize
DelInitialize(pend) == SelectPending(pend, PendingKeys(pend) \ InitKeys(pend))

\* the first pending initialize request (list(pending_requests.items()), break)
FirstInitialize(pend) ==
  pend[CHOOSE i \in 1..Len(pend) :
         /\ pend[i].req.method = "initialize"
         /\ \A j \in 1..(i - 1) : pend[j].req.method # "initialize"]

Bump(n) == IF n < 2 THEN n + 1 ELSE 2

(* ---- the foreground loop (main stdin/stdout loop) ---- *)
\* Mutation: the thread is never found alive.
ThreadAlive_Mut(w) == FALSE

\* `ws_thread is not None and ws_thread.is_alive()`, tested under
\* connection_lock.
ThreadAlive(w) == w # "none"

\* start_websocket_thread(): starts the worker unless one is alive.
StartedWorker(w) == IF ThreadAlive(w) THEN w ELSE "top"

\* `finally`: cleanup_and_exit() clears the pending table; the process ends
\* and takes the daemon worker thread with it.
FgExit ==
  /\ fpc' = "exited"
  /\ pending_requests' = <<>>

\* Mutation: a tracking id is never found in a dedup set.
Processed_Mut(ids, fp) == FALSE

\* `tracking_id in processed_response_ids`, `resp_tracking_id in
\* sent_response_ids`: membership of a tracking id in a dedup set.
Processed(ids, fp) == fp \in ids

\* `if resp_tracking_id in sent_response_ids`
AlreadySent(sentIds, response) == Processed(sentIds, Fingerprint("sent", response))

\* max_retries = 3 of the response write loop.
MaxWriteRetries == 3

\* max_broken_pipes = 3
MaxBrokenPipes == 3

\* The write loop `while retry_count < max_retries`, entered with the given
\* counters, when the next `fails` calls of write_to_stdout fail and the
\* one after them succeeds: the counters and flags it ends with.
RECURSIVE WriteLoop(_, _, _)
WriteLoop(retry_count, broken, fails) ==
  IF retry_count >= MaxWriteRetries
  THEN [written |-> FALSE, retry_count |-> retry_count, broken |-> broken, should_exit |-> FALSE]
  ELSE IF fails = 0
  THEN [written |-> TRUE, retry_count |-> retry_count, broken |-> 0, should_exit |-> FALSE]
  ELSE IF broken + 1 >= MaxBrokenPipes
  THEN [written |-> FALSE, retry_count |-> retry_count + 1, broken |-> broken + 1,
        should_exit |-> TRUE]
  ELSE WriteLoop(retry_count + 1, broken + 1, fails - 1)

\* Mutation: the response is not put back.
PutBack_Mut(queue, response) == queue

\* response_queue.insert(0, response)
PutBack(queue, response) == <<response>> \o queue

\* First half of an iteration: pop one response and write it to the local
\* peer unless it was written before, trying up to 3 times.  `fails` is the
\* number of write attempts that fail from now on before one succeeds.
FgResp(fails) ==
  /\ fpc = "resp"
  /\ IF response_queue = <<>>
     THEN /\ fpc' = "stdin"
          /\ UNCHANGED <<response_queue, stdout, sent_response_ids, pending_requests,
                         broken_pipe_count>>
     ELSE LET response == Head(response_queue)
              popped == Tail(response_queue)
              end == WriteLoop(0, broken_pipe_count, fails)
          IN
          IF AlreadySent(sent_response_ids, response)
          THEN /\ response_queue' = popped
               /\ fpc' = "resp"
               /\ UNCHANGED <<stdout, sent_response_ids, pending_requests, broken_pipe_count>>
          ELSE /\ broken_pipe_count' = end.broken
               /\ IF end.written
                  THEN /\ stdout' = Append(stdout, response)
                       /\ sent_response_ids' =
                            sent_response_ids \cup {Fingerprint("sent", response)}
                  ELSE UNCHANGED <<stdout, sent_response_ids>>
               /\ response_queue' =
                    IF end.retry_count = MaxWriteRetries
                    THEN PutBack(popped, response)
                    ELSE popped
               /\ IF end.should_exit
                  THEN FgExit
                  ELSE /\ fpc' = IF end.retry_count = MaxWriteRetries THEN "resp" ELSE "stdin"
                       /\ UNCHANGED pending_requests
  /\ UNCHANGED <<linesLeft, eof, connection_initialized, processed_response_ids, wpc,
                 active_connection, netVars, sentThisConn, seen, seenTwice, accepted,
                 wsThreads, fgRequest>>

\* select() reports nothing to read: sleep and loop.
FgNoInput ==
  /\ fpc = "stdin"
  /\ ~eof
  /\ fpc' = "resp"
  /\ UNCHANGED <<linesLeft, eof, pending_requests, response_queue, connection_initialized,
                 processed_response_ids, sent_response_ids, stdout, wpc, active_connection,
                 netVars, sentThisConn, seen, seenTwice, accepted, wsThreads,
                 fgRequest, broken_pipe_count>>

\* The key under which a request goes into the pending table.
KeyFor(pend, request) ==
  IF request.id = NoId THEN SId(Len(pend) + 1) ELSE Str(request.id)

\* has_initialize: the loop over pending_requests.items() looking for a
\* request whose method is initialize.
HasInitialize(pend) == InitKeys(pend) # {}

\* "Add to pending requests to be sent via WebSocket", then
\* start_websocket_thread().
AddPending(request) ==
  /\ pending_requests' =
       PutPending(pending_requests, KeyFor(pending_requests, request),
                  IF request.id = NoId
                  THEN [request EXCEPT !.id = KeyFor(pending_requests, request)]
                  ELSE request)
  /\ wpc' = StartedWorker(wpc)
  /\ wsThreads' = IF ThreadAlive(wpc) THEN wsThreads ELSE wsThreads + 1

\* A line holding a JSON request is read from the local peer.  `ok` is
\* whether a direct write to the local peer succeeds.
FgRequest(request, ok) ==
  /\ fpc = "stdin"
  /\ ~eof
  /\ linesLeft > 0
  /\ linesLeft' = linesLeft - 1
  /\ accepted' = [accepted EXCEPT ![KeyFor(pending_requests, request)] = Bump(@)]
  /\ fgRequest' = request
  /\ IF request.method = "initialize" /\ connection_initialized
     THEN \* answered locally with {"result": {"type": "success"}, "id": id}
          IF ok
          THEN /\ stdout' = Append(stdout, Result(request.id, "local_success"))
               /\ fpc' = "resp"
               /\ UNCHANGED <<pending_requests, wpc, wsThreads>>
          ELSE /\ FgExit
               /\ UNCHANGED <<stdout, wpc, wsThreads>>
     ELSE IF request.method = "initialize" /\ HasInitialize(pending_requests)
     THEN \* "Already have pending initialize request, skipping new one"
          /\ fpc' = "resp"
          /\ UNCHANGED <<pending_requests, stdout, wpc, wsThreads>>
     ELSE IF request.method = "initialize"
     THEN \* the scan found no pending initialize: go on to the insertion
          /\ fpc' = "insert"
          /\ UNCHANGED <<pending_requests, stdout, wpc, wsThreads>>
     ELSE /\ AddPending(request)
          /\ fpc' = "resp"
          /\ UNCHANGED stdout
  /\ UNCHANGED <<eof, response_queue, connection_initialized, processed_response_ids,
                 sent_response_ids, active_connection, netVars, sentThisConn, seen, seenTwice,
                 broken_pipe_count>>

\* An initialize request that passed the checks is added to the pending
\* table.  The checks and the insertion are separate statements of the
\* foreground thread and no lock is held across them, so the worker thread
\* may run in between.
FgInsert ==
  /\ fpc = "insert"
  /\ AddPending(fgRequest)
  /\ fpc' = "resp"
  /\ UNCHANGED <<fgRequest, broken_pipe_count, linesLeft, eof, stdout, accepted, response_queue, connection_initialized,
                 processed_response_ids, sent_response_ids, active_connection, netVars,
                 sentThisConn, seen, seenTwice>>

\* A line that is not JSON: a -32700 parse error is written directly.
FgGarbage(ok) ==
  /\ fpc = "stdin"
  /\ ~eof
  /\ linesLeft > 0
  /\ linesLeft' = linesLeft - 1
  /\ IF ok
     THEN /\ stdout' = Append(stdout, Error(NoId, -32700, "parse_error"))
          /\ fpc' = "resp"
          /\ UNCHANGED pending_requests
     ELSE /\ FgExit
          /\ UNCHANGED stdout
  /\ UNCHANGED <<eof, response_queue, connection_initialized, processed_response_ids,
                 sent_response_ids, wpc, active_connection, netVars, sentThisConn, seen,
                 seenTwice, accepted, wsThreads,
                 fgRequest, broken_pipe_count>>

\* read_from_stdin() returns None: the local peer closed its end.
FgEof ==
  /\ fpc = "stdin"
  /\ eof' = TRUE
  /\ fpc' = "eof_wait"
  /\ UNCHANGED <<linesLeft, pending_requests, response_queue, connection_initialized,
                 processed_response_ids, sent_response_ids, stdout, wpc, active_connection,
                 netVars, sentThisConn, seen, seenTwice, accepted, wsThreads,
                 fgRequest, broken_pipe_count>>

\* Mutation: the queue is taken to be empty whatever it holds.
NoResponses_Mut(queue) == TRUE

\* `if not response_queue`, after the wait of up to 5 seconds.
NoResponses(queue) == queue = <<>>

\* The grace period after EOF: leave it as soon as a response is queued,
\* exit when it elapses with the queue empty.
FgEofWait ==
  /\ fpc = "eof_wait"
  /\ IF ~NoResponses(response_queue)
     THEN /\ fpc' = "resp"
          /\ UNCHANGED pending_requests
     ELSE FgExit
  /\ UNCHANGED <<linesLeft, eof, response_queue, connection_initialized,
                 processed_response_ids, sent_response_ids, stdout, wpc, active_connection,
                 netVars, sentThisConn, seen, seenTwice, accepted, wsThreads,
                 fgRequest, broken_pipe_count>>

(* ---- the socket worker (connect_and_process) ---- *)
WorkerRuns == fpc # "exited"

\* Any exception inside the connection's `try`: the websocket context is
\* left (the socket is closed), active_connection is cleared and the worker
\* sleeps 5 seconds before the next attempt.
WkFail ==
  /\ wpc' = "backoff"
  /\ active_connection' = FALSE
  /\ connUp' = FALSE
  /\ toServer' = <<>>
  /\ toRelay' = <<>>

\* Top of the connection loop: connect.  The remote accepts and establishes
\* the session ("ok"), the connection cannot be made ("error"), or the
\* remote accepts, finds the API key invalid and closes with code 4001
\* ("authclose").
WkConnect(outcome) ==
  /\ WorkerRuns
  /\ wpc = "top"
  /\ IF active_connection
     THEN UNCHANGED <<wpc, active_connection, netVars, sentThisConn>>
     ELSE /\ sentThisConn' = [k \in Keys |-> 0]
          /\ CASE outcome = "ok" ->
                    /\ wpc' = "hello"
                    /\ srvInit' = FALSE
                    /\ active_connection' = TRUE
                    /\ connNo' = connNo + 1
                    /\ connUp' = TRUE
                    /\ closeCode' = "none"
                    /\ toServer' = <<>>
                    /\ toRelay' = <<TestMsg, ConnMsg(connNo + 1)>>
                    /\ UNCHANGED <<faults, authRejected>>
               [] outcome = "error" ->
                    /\ faults < MaxFaults
                    /\ faults' = faults + 1
                    /\ wpc' = "backoff"
                    /\ UNCHANGED <<active_connection, connNo, connUp, closeCode, srvInit,
                                   toServer, toRelay, authRejected>>
               [] outcome = "authclose" ->
                    /\ faults < MaxFaults
                    /\ faults' = faults + 1
                    /\ wpc' = "hello"
                    /\ active_connection' = TRUE
                    /\ connUp' = FALSE
                    /\ closeCode' = "auth"
                    /\ authRejected' = TRUE
                    /\ toServer' = <<>>
                    /\ toRelay' = <<TestMsg>>
                    /\ UNCHANGED <<connNo, srvInit>>
  /\ UNCHANGED <<fgVars, pending_requests, response_queue, connection_initialized,
                 processed_response_ids, seen, seenTwice>>

\* History: the worker received `response` on the current connection.
SeenAfter(response) ==
  IF response.id = NoId THEN seen ELSE seen \cup {<<response, connNo>>}

SeenTwiceAfter(response) ==
  IF response.id # NoId /\ (\E c \in 0..connNo : <<response, c>> \in seen)
  THEN seenTwice \cup {response}
  ELSE seenTwice

\* `msg = await websocket.recv()` right after connecting: the first frame.
\* A connection_established message is queued for the local peer once.
WkHello ==
  /\ WorkerRuns
  /\ wpc = "hello"
  /\ IF toRelay # <<>>
     THEN LET data == Head(toRelay) IN
          /\ toRelay' = Tail(toRelay)
          /\ wpc' = "init_send"
          /\ seen' = SeenAfter(data)
          /\ seenTwice' = SeenTwiceAfter(data)
          /\ IF data.kind = "connection"
                /\ ~Processed(processed_response_ids, Fingerprint("connection", data))
             THEN /\ response_queue' = Append(response_queue, data)
                  /\ processed_response_ids' =
                       processed_response_ids \cup {Fingerprint("connection", data)}
             ELSE UNCHANGED <<response_queue, processed_response_ids>>
          /\ UNCHANGED <<active_connection, connUp, toServer>>
     ELSE /\ ~connUp
          /\ WkFail
          /\ UNCHANGED <<response_queue, processed_response_ids, seen, seenTwice>>
  /\ UNCHANGED <<fgVars, pending_requests, connection_initialized, connNo, closeCode,
                 srvInit, faults, authRejected, sentThisConn>>

\* "Process any initialize request immediately after connection": the first
\* pending initialize is sent when the relay is not marked initialized.
WkInitSend ==
  /\ WorkerRuns
  /\ wpc = "init_send"
  /\ IF ~connection_initialized /\ InitKeys(pending_requests) # {}
     THEN IF connUp
          THEN /\ Len(toServer) < MaxInFlight
               /\ toServer' = Append(toServer, FirstInitialize(pending_requests).req)
               /\ sentThisConn' =
                    [sentThisConn EXCEPT ![FirstInitialize(pending_requests).key] = Bump(@)]
               /\ wpc' = "recv"
               /\ UNCHANGED <<active_connection, connUp, toRelay>>
          ELSE /\ WkFail
               /\ UNCHANGED sentThisConn
     ELSE /\ wpc' = "recv"
          /\ UNCHANGED <<active_connection, connUp, toServer, toRelay, sentThisConn>>
  /\ UNCHANGED <<fgVars, pending_requests, response_queue, connection_initialized,
                 processed_response_ids, connNo, closeCode, srvInit, faults, authRejected,
                 seen, seenTwice>>

\* Main cycle, receive: one frame with a 0.1 s timeout.
WkRecv(timeout) ==
  /\ WorkerRuns
  /\ wpc = "recv"
  /\ IF ~timeout /\ toRelay # <<>>
     THEN LET response == Head(toRelay)
              isInit == response.id \in {NId(0), SId(0)}
              fp == Fingerprint(IF isInit THEN "initialize" ELSE "response", response)
              fresh == response.id # NoId /\ ~Processed(processed_response_ids, fp)
          IN
          /\ toRelay' = Tail(toRelay)
          /\ seen' = SeenAfter(response)
          /\ seenTwice' = SeenTwiceAfter(response)
          /\ wpc' = IF isInit THEN "recv" ELSE "send"
          /\ response_queue' = IF fresh THEN Append(response_queue, response)
                               ELSE response_queue
          /\ processed_response_ids' = IF fresh THEN processed_response_ids \cup {fp}
                                       ELSE processed_response_ids
          /\ connection_initialized' = IF fresh /\ isInit THEN TRUE
                                       ELSE connection_initialized
          /\ pending_requests' =
               IF ~fresh THEN pending_requests
               ELSE IF isInit THEN DelInitialize(pending_requests)
               ELSE DelPending(pending_requests, Str(response.id))
          /\ UNCHANGED <<active_connection, connUp, toServer>>
     ELSE IF connUp
     THEN \* asyncio.TimeoutError: go on to the pending requests.  Fewer
          \* than MaxInFlight frames may be delayed past a timeout.
          /\ timeout
          /\ Len(toRelay) < MaxInFlight
          /\ wpc' = "send"
          /\ UNCHANGED <<active_connection, connUp, toServer, toRelay, response_queue,
                         processed_response_ids, connection_initialized, pending_requests,
                         seen, seenTwice>>
     ELSE \* ConnectionClosed
          /\ toRelay = <<>>
          /\ WkFail
          /\ UNCHANGED <<response_queue, processed_response_ids, connection_initialized,
                         pending_requests, seen, seenTwice>>
  /\ UNCHANGED <<fgVars, connNo, closeCode, srvInit, faults, authRejected, sentThisConn>>

\* Main cycle, send: "Process pending requests": the first entry of the
\* pending table is sent, whether or not it was sent before.
WkSend ==
  /\ WorkerRuns
  /\ wpc = "send"
  /\ IF pending_requests = <<>>
     THEN /\ wpc' = "recv"
          /\ UNCHANGED <<active_connection, connUp, toServer, toRelay, sentThisConn>>
     ELSE IF connUp
     THEN /\ Len(toServer) < MaxInFlight
          /\ toServer' = Append(toServer, Head(pending_requests).req)
          /\ sentThisConn' = [sentThisConn EXCEPT ![Head(pending_requests).key] = Bump(@)]
          /\ wpc' = "recv"
          /\ UNCHANGED <<active_connection, connUp, toRelay>>
     ELSE /\ WkFail
          /\ UNCHANGED sentThisConn
  /\ UNCHANGED <<fgVars, pending_requests, response_queue, connection_initialized,
                 processed_response_ids, connNo, closeCode, srvInit, faults, authRejected,
                 seen, seenTwice>>

\* `await asyncio.sleep(5)` is over: `continue` to the top of the loop.
WkBackoff ==
  /\ WorkerRuns
  /\ wpc = "backoff"
  /\ wpc' = "top"
  /\ UNCHANGED <<fgVars, pending_requests, response_queue, connection_initialized,
                 processed_response_ids, active_connection, netVars, sentThisConn, seen,
                 seenTwice>>

(* ---- the remote end ---- *)
\* handle_websocket's loop: receive_json, bridge.handle_message.
SrvHandle ==
  /\ connUp
  /\ toServer # <<>>
  /\ Len(toRelay) < MaxInFlight
  /\ LET r == handle_message(srvInit, Head(toServer), TRUE) IN
       /\ srvInit' = r.init
       /\ toRelay' = toRelay \o r.out
  /\ toServer' = Tail(toServer)
  /\ UNCHANGED <<fgVars, pending_requests, response_queue, connection_initialized,
                 processed_response_ids, wpc, active_connection, connNo, connUp, closeCode,
                 faults, authRejected, sentThisConn, seen, seenTwice>>

\* The established connection is lost (network failure or a close that is
\* not an authentication failure).  Frames the remote had sent remain
\* readable; frames not yet handled by the remote are lost.
ConnDrop ==
  /\ WorkerRuns
  /\ connUp
  /\ faults < MaxFaults
  /\ faults' = faults + 1
  /\ connUp' = FALSE
  /\ closeCode' = "other"
  /\ toServer' = <<>>
  /\ UNCHANGED <<fgVars, pending_requests, response_queue, connection_initialized,
                 processed_response_ids, wpc, active_connection, connNo, srvInit, toRelay,
                 authRejected, sentThisConn, seen, seenTwice>>

\* One step of the relay when the local peer writes requests of the given
\* set.
RelayStep(requests) ==
  \/ \E fails \in 0..MaxWriteRetries : FgResp(fails)
  \/ FgNoInput
  \/ \E request \in requests, ok \in BOOLEAN : FgRequest(request, ok)
  \/ FgInsert
  \/ \E ok \in BOOLEAN : FgGarbage(ok)
  \/ FgEof
  \/ FgEofWait
  \/ \E outcome \in {"ok", "error", "authclose"} : WkConnect(outcome)
  \/ WkHello
  \/ WkInitSend
  \/ \E timeout \in BOOLEAN : WkRecv(timeout)
  \/ WkSend
  \/ WkBackoff
  \/ SrvHandle
  \/ ConnDrop

RelayNext == RelayStep(PeerRequests)

(***************************************************************************)
(* Specifications.                                                         *)
(***************************************************************************)
vars == <<sessVars, lockVars, logVars, relayVars>>

\* Every component freshly constructed; the logs directory may or may not
\* be usable.
Init == SessInit /\ LockInit /\ LogInit /\ RelayInit

\* The same with a usable logs directory.
InitFileOk == Init /\ fileOk

SpecSession == InitFileOk /\ [][SessNext /\ UNCHANGED <<lockVars, logVars, relayVars>>]_vars

SpecLock == InitFileOk /\ [][LockNext /\ UNCHANGED <<sessVars, logVars, relayVars>>]_vars

SpecLog == Init /\ [][LogNext /\ UNCHANGED <<sessVars, lockVars, relayVars>>]_vars

SpecRelay == InitFileOk /\ [][RelayNext /\ UNCHANGED <<sessVars, lockVars, logVars>>]_vars

\* The relay with a local peer that uses the id "0" for a call.
SpecRelayZero ==
  InitFileOk /\ [][RelayStep(ZeroIdRequests) /\ UNCHANGED <<sessVars, lockVars, logVars>>]_vars

\* The relay under the scheduling the code relies on: the worker thread and
\* the foreground loop keep running, the remote handles what it receives,
\* and a frame that has arrived is eventually returned by recv().
WorkerStep ==
  \/ \E outcome \in {"ok", "error", "authclose"} : WkConnect(outcome)
  \/ WkHello
  \/ WkInitSend
  \/ \E timeout \in BOOLEAN : WkRecv(timeout)
  \/ WkSend
  \/ WkBackoff

ForegroundStep == FgResp(0) \/ FgNoInput \/ FgInsert \/ FgEof \/ FgEofWait

RelayOnly == UNCHANGED <<sessVars, lockVars, logVars>>

SpecRelayFair ==
  /\ SpecRelay
  /\ WF_vars(WorkerStep /\ RelayOnly)
  /\ SF_vars(WkRecv(FALSE) /\ RelayOnly)
  /\ WF_vars(SrvHandle /\ RelayOnly)
  /\ WF_vars(ForegroundStep /\ RelayOnly)

(***************************************************************************)
(* Claims about the bridge session.                                        *)
(***************************************************************************)
Handled == last.branch # "none"

C2_HandshakeAcceptedOnce == initOkCount <= 1

\* C10: an 'initialize' request (without params) handled by an already
\* initialized session is answered with error -32002 and leaves the session
\* state unchanged.
C10_SecondInitializeRejected ==
  (/\ Handled
   /\ MCPRequestValid(last.msg)
   /\ last.msg.method = "initialize"
   /\ last.msg.params # "nonempty"
   /\ last.before
   /\ last.wsOk)
  => /\ Len(last.out) = 1
     /\ last.out[1].kind = "error"
     /\ last.out[1].code = -32002
     /\ initialized = last.before

\* C11: a well-formed 'initialize' request with non-empty params is answered
\* with error -32602 and leaves the session's initialized flag as it was.
C11_InitializeWithParamsRejected ==
  (/\ Handled
   /\ MCPRequestValid(last.msg)
   /\ last.msg.method = "initialize"
   /\ last.msg.params = "nonempty"
   /\ last.wsOk)
  => /\ Len(last.out) = 1
     /\ last.out[1].kind = "error"
     /\ last.out[1].code = -32602
     /\ initialized = last.before

\* C12: a message without a 'method' field is answered with error -32600
\* (id "" when the message had no id), and the initialized flag after
\* handling it is the one before, in either state.
C12_NoMethodIsInvalidRequest ==
  (Handled /\ last.msg.method = "absent")
  => /\ last.branch = "invalid"
     /\ last.wsOk => Len(last.out) = 1
     /\ \A i \in 1..Len(last.out) :
          /\ last.out[i].kind = "error"
          /\ last.out[i].code = -32600
          /\ last.msg.id = NoId => last.out[i].id = EmptyId
     /\ initialized = last.before

\* A message without a method was answered -32600 by an initialized session,
\* which stayed initialized.
C12_Witness ==
  /\ Handled
  /\ last.msg.method = "absent"
  /\ last.msg.id = NoId
  /\ last.before
  /\ last.out = <<Error(EmptyId, -32600, "invalid_request")>>
  /\ initialized

\* C13: a message whose version field is not "2.0" is answered with error
\* -32600 and is dispatched neither as a handshake nor as a method call.
C13_WrongVersionRejected ==
  (Handled /\ last.msg.jsonrpc = "1.0" /\ last.wsOk)
  => /\ last.branch = "invalid"
     /\ Len(last.out) = 1
     /\ last.out[1].kind = "error"
     /\ last.out[1].code = -32600

C15_HandlerExceptionReported ==
  [][(handledN' = handledN + 1 /\ Raised(last'))
     => /\ last'.wsOk => last'.out = <<Error(last'.msg.id, -32000, HandlerCall(last'.msg).text)>>
        /\ initialized'
        /\ sessOpen']_vars

\* A message was handled on the connection right after a method call that
\* ended in an exception; the session is open and initialized.
C15_Witness ==
  /\ Handled
  /\ last.afterRaise
  /\ last.before
  /\ last.wsOk
  /\ Len(last.out) = 1
  /\ initialized
  /\ sessOpen

\* C16: in an initialized session a request 'tool.method' naming a registered
\* tool and one of its methods is answered with a result, the return value of
\* the method's handler.
C16_RegisteredMethodReturnsResult ==
  (Handled /\ last.before /\ MCPRequestValid(last.msg)
   /\ last.msg.method = "minimal.echo" /\ last.wsOk)
  => /\ Len(last.out) = 1
     /\ last.out[1].kind = "result"
     /\ last.out[1].id = last.msg.id

\* C17: every response the session emits carries a string id, also when the
\* request carried a numeric id.
C17_ResponseIdIsString ==
  \A i \in 1..Len(last.out) : last.out[i].id.k = "str"

\* C18: the tools map of a successful initialize reply names exactly the
\* registered tools with their registered methods.
C18_InitializeReplyCarriesRegistry ==
  (Handled /\ IsInitSuccess(last.msg, last.out))
  => ToolsOf(last.out[1].body) = RegistryCapabilities

\* C19: the session only moves forward from awaiting the handshake to
\* initialized to closed: an initialized session never becomes uninitialized,
\* and a closed session handles no message and changes state no more.
C19_StateOnlyMovesForward ==
  [][/\ initialized => initialized'
     /\ ~sessOpen => /\ ~sessOpen'
                     /\ initialized' = initialized
                     /\ handledN' = handledN
                     /\ last' = last]_vars

\* A session that was initialized by a handshake and then closed.
C19_Witness ==
  /\ ~sessOpen
  /\ initialized
  /\ handledN >= 2
  /\ IsInitSuccess(last.msg, last.out) \/ last.before

\* C35: for every request with an id that the session handles, exactly one
\* response carrying that id is sent on the transport.
C35_OneResponseWithRequestId ==
  (Handled /\ last.msg.method # "absent" /\ last.msg.id # NoId /\ last.wsOk)
  => /\ Len(last.out) = 1
     /\ Str(last.out[1].id) = Str(last.msg.id)

(***************************************************************************)
(* Claims about the single-instance lock.                                  *)
(***************************************************************************)
LiveRelays == {p \in Procs : lpc[p] = "main"}

\* C3: at most one relay process is live (past lock acquisition, running the
\* main loop) per lock path at any time.
C3_AtMostOneLiveRelay == Cardinality(LiveRelays) <= 1

\* C24: a relay that has written an error response to its local peer wrote
\* exactly one and never runs the main loop, and while it has, a running
\* instance's lock file is still what the lock path names.
C24_SecondInstanceRefused ==
  \A p \in Procs :
    errCount[p] >= 1
    => /\ errCount[p] = 1
       /\ lpc[p] # "main"
       /\ \A q \in LiveRelays : lockPath = lockFile[q]

(***************************************************************************)
(* Claims about the log shipper.                                           *)
(***************************************************************************)
\* Records that log() has appended to the in-memory buffer so far.
Appended == {r \in Records : r < nextRec /\ r # logging}

Stored == SeqToSet(fallback)

\* C7: every record passed to log() is in the fallback store by the time it
\* is appended to the buffer, whatever the deliveries did.
C7_EveryRecordInFallback == Appended \subseteq Stored

\* With a usable logs directory the fallback file does hold every record
\* before it is appended to the buffer, also after failed deliveries.
FallbackFirstWhenFileOk ==
  fileOk => /\ Appended \subseteq Stored
            /\ logging # 0 => logging \in Stored
            /\ SeqToSet(buffer) \subseteq Stored

AllStoredAfterExhaustion ==
  /\ fileOk
  /\ exhausted
  /\ nextRec > MaxRecords
  /\ logging = 0
  /\ Stored = Records

\* C20: after cleanup() has returned, with a sink that accepted every
\* delivery, the periodic task is cancelled and no record the session logged
\* is left in the shipper's buffer.
C20_CloseLeavesNothingBuffered ==
  (closed /\ ~sinkFailed) => (~timerOn /\ buffer = <<>>)

\* The flush of owner o makes its last delivery attempt in this step and
\* the attempt fails.
LastAttemptFails(o) ==
  /\ flights[o].st = "post"
  /\ flights[o].attempt = MaxRetries - 1
  /\ flights'[o].st = "sleep"

\* C21: when the merge of a failed batch makes the buffer exceed
\* 2 x bufferSize, every record kept was logged no earlier than every record
\* discarded.
C21_TrimKeepsNewest ==
  [][\A o \in Owners :
       LastAttemptFails(o)
       => \A k \in SeqToSet(buffer') :
            \A d \in SeqToSet(buffer \o flights[o].batch) \ SeqToSet(buffer') : k >= d]_vars

\* C22: the live buffer never holds more than 2 x bufferSize records.
C22_BufferBounded == Len(buffer) <= 2 * BufferSize

\* Flushes between their buffer swap and the end of their delivery attempts.
InProgress == {o \in Owners : flights[o].st \in {"post", "sleep"}}

\* C23: at no time are two flushes of the shipper in progress at once.
C23_SingleFlight == Cardinality(InProgress) <= 1

\* C29: a flush makes at most maxRetries delivery attempts for its batch, and
\* the attempt that succeeds is its last one.
C29_AtMostMaxRetriesAttempts ==
  [][\A o \in Owners :
       /\ flights'[o].attempt + 1 <= MaxRetries
       /\ (flights[o].st = "post" /\ delivered' # delivered /\ flights'[o] # flights[o])
          => flights'[o] = Idle]_vars

\* A flush has made its last attempt, the one numbered maxRetries, in vain,
\* and another flush got its batch delivered.
C29_Witness ==
  /\ \E o \in Owners : flights[o].st = "sleep" /\ flights[o].attempt + 1 = MaxRetries
  /\ \E r \in Logged : delivered[r] > 0

\* C30: when a flush whose every attempt failed ends, the records of its
\* batch are in the live buffer, except those the overflow trim removed.
C30_FailedBatchBackWhenFlushEnds ==
  [][\A o \in Owners :
       (/\ flights[o].st = "sleep"
        /\ flights[o].attempt + 1 = MaxRetries
        /\ flights'[o] = Idle)
       => SeqToSet(flights[o].batch) \subseteq SeqToSet(buffer') \cup discarded']_vars

\* Records held in the batch of some flush.
InFlight == UNION {SeqToSet(flights[o].batch) : o \in Owners}

\* stop() has returned: its final flush() has run to its end.
StopReturned == stopped /\ flights[Final].st = "idle"

\* C38: when stop() returns, every record logged before it is delivered, in
\* the batch of a flush still running, in the live buffer, or was removed by
\* the overflow trim: stop() itself loses none.
C38_StopLosesNoRecord ==
  StopReturned =>
    \A r \in Appended :
      \/ delivered[r] > 0
      \/ r \in InFlight
      \/ r \in SeqToSet(buffer)
      \/ r \in discarded

Count(seq, x) == Cardinality({i \in 1..Len(seq) : seq[i] = x})

\* Responses (frames carrying an id) the worker has read off the socket.
Received == {p[1] : p \in seen}

\* C4: a response the socket delivered, once or several times, on one or on
\* several connections, is written to the local peer at most once, and it is
\* never dropped: it is either written or waiting in the response queue.
C4_RedeliveredWrittenOnce ==
  \A r \in Received :
    /\ Count(stdout, r) <= 1
    /\ Count(stdout, r) + Count(response_queue, r) = 1

C4_Witness ==
  \E r \in seenTwice :
    /\ <<r, 1>> \in seen
    /\ <<r, 2>> \in seen
    /\ Count(stdout, r) = 1
    /\ Count(response_queue, r) = 0

\* Positions of stdout holding a response whose id is that of request key k.
WrittenFor(k) ==
  {i \in 1..Len(stdout) :
     /\ stdout[i].kind \in {"result", "error"}
     /\ stdout[i].id # NoId
     /\ Str(stdout[i].id) = k}

InitRequestKeys == {Str(r.id) : r \in {q \in PeerRequests : q.method = "initialize"}}

\* The worker has received, on the connection that is open now, the success
\* reply of the remote to an initialize request.
InitAckedOnConnection ==
  /\ connUp
  /\ \E p \in seen :
       /\ p[2] = connNo
       /\ p[1].kind = "result"
       /\ p[1].body \in {"quick_caps", "registry_caps"}

\* In this step the foreground loop reads an initialize request with key k
\* while another initialize is pending or one was acknowledged, and goes on.
DuplicateInitializeRead(k) ==
  /\ linesLeft' = linesLeft - 1
  /\ fgRequest'.method = "initialize"
  /\ Str(fgRequest'.id) = k
  /\ InitKeys(pending_requests) # {} \/ InitAckedOnConnection
  /\ fpc' # "exited"

\* In this step the foreground loop finishes the handling of such an
\* initialize request that passed its checks.
DuplicateInitializeInsert(k) ==
  /\ fpc = "insert"
  /\ fpc' = "resp"
  /\ Str(fgRequest.id) = k
  /\ InitKeys(pending_requests) # {} \/ InitAckedOnConnection

C26_DuplicateInitializeAnsweredLocally ==
  [][\A k \in InitRequestKeys :
       DuplicateInitializeRead(k)
       => /\ Len(stdout') = Len(stdout) + 1
          /\ stdout'[Len(stdout')].kind = "result"
          /\ Str(stdout'[Len(stdout')].id) = k]_vars

\* C27: at most one socket worker thread is alive at any time.
C27_AtMostOneWorker == wsThreads <= 1

\* The foreground loop has asked twice for the worker to be started (two
\* requests are in the pending table) and one worker runs.
C27_Witness ==
  /\ Len(pending_requests) = 2
  /\ wsThreads = 1
  /\ wpc # "none"

C31_FailedWritePutBackThenExit ==
  [][/\ \A x \in sent_response_ids' \ sent_response_ids :
          /\ x.t = "sent"
          /\ stdout' = Append(stdout, x.r)
     /\ \A fails \in 0..MaxWriteRetries :
          /\ WriteLoop(0, 0, fails).written <=> fails < 3
          /\ WriteLoop(0, 0, fails).should_exit <=> fails = 3
     /\ (fpc = "resp" /\ (fpc' = "exited" \/ broken_pipe_count' # broken_pipe_count))
        => /\ broken_pipe_count = 0
           /\ broken_pipe_count' = 3
           /\ fpc' = "exited"
           /\ response_queue # <<>>
           /\ response_queue' = response_queue
           /\ UNCHANGED <<stdout, sent_response_ids>>]_vars

\* The relay has terminated after 3 failed writes of a response, having
\* written an earlier response; the failed one heads the queue, unrecorded.
C31_Witness ==
  /\ fpc = "exited"
  /\ broken_pipe_count = 3
  /\ Len(response_queue) >= 1
  /\ ~AlreadySent(sent_response_ids, Head(response_queue))
  /\ Count(stdout, Head(response_queue)) = 0
  /\ \E i \in 1..Len(stdout) : Fingerprint("sent", stdout[i]) \in sent_response_ids

\* C32: the exit taken after EOF from the local peer happens only when the
\* response queue is empty, and every response the worker had queued until
\* then has been written to the local peer.
C32_EofExitOnlyWhenDrained ==
  [][(fpc = "eof_wait" /\ fpc' = "exited")
     => /\ response_queue = <<>>
        /\ \A r \in Received : Count(stdout, r) = 1]_vars

\* The relay has exited after EOF with the queue empty and the reply to a
\* forwarded request written to the local peer.
C32_Witness ==
  /\ eof
  /\ fpc = "exited"
  /\ broken_pipe_count = 0
  /\ response_queue = <<>>
  /\ \E r \in Received : r.kind \in {"result", "error"} /\ Count(stdout, r) = 1

Left == {pending_requests[i] : i \in 1..Len(pending_requests)}
          \ {pending_requests'[i] : i \in 1..Len(pending_requests')}

C36_GeneratedIdNotPending ==
  [][(linesLeft' = linesLeft - 1 /\ fgRequest'.id = NoId)
     => ~HasKey(pending_requests, KeyFor(pending_requests, fgRequest'))]_vars

====
